---------------------------- MODULE Spec2Model ----------------------------
(***************************************************************************)
(* Model of the Harmattan AI medical code assistant (src/app.py).          *)
(*                                                                         *)
(* A text is a sequence of one-character strings.  The model covers the    *)
(* response pipeline (run_agent -> extract_json_from_string -> json.loads  *)
(* -> list normalisation) and the Streamlit session around it              *)
(* (agent_response_data, validation_states, the Analyze Notes handler and  *)
(* the validation form).                                                   *)
(***************************************************************************)
EXTENDS Integers, Sequences, FiniteSets, TLC

(***************************************************************************)
(* Optional values: Python's None against a str.                           *)
(***************************************************************************)
None == [some |-> FALSE, v |-> <<>>]
Some(s) == [some |-> TRUE, v |-> s]

(***************************************************************************)
(* Character classes.                                                      *)
(***************************************************************************)
\* the backquote character, which a TLA+ string cannot hold
BackQuote == "BACKQUOTE"

\* \s of a Python str pattern (the ASCII part that a TLA+ string can hold)
IsSpace(c) == c \in {" ", "\t", "\n", "\r", "\f"}

\* the class [\[\{] of the pattern
IsOpenBracket(c) == c \in {"[", "{"}

\* the class [\]\}] of the pattern
IsCloseBracket(c) == c \in {"]", "}"}

\* re.IGNORECASE on the letters of the literal "json"
Lower(c) ==
  CASE c = "J" -> "j"
    [] c = "S" -> "s"
    [] c = "O" -> "o"
    [] c = "N" -> "n"
    [] OTHER -> c

SubText(text, a, b) == SubSeq(text, a, b)

\* the literal FENCE at position p
FenceAt(text, p) ==
  /\ p >= 1
  /\ p + 2 <= Len(text)
  /\ text[p] = BackQuote /\ text[p + 1] = BackQuote /\ text[p + 2] = BackQuote

\* the literal json (any case) at position p
JsonWordAt(text, p) ==
  /\ p >= 1
  /\ p + 3 <= Len(text)
  /\ Lower(text[p]) = "j" /\ Lower(text[p + 1]) = "s"
  /\ Lower(text[p + 2]) = "o" /\ Lower(text[p + 3]) = "n"

\* \s* (greedy): the first position at or after p that holds no whitespace
RECURSIVE SkipSpace(_, _)
SkipSpace(text, p) ==
  IF p <= Len(text) /\ IsSpace(text[p]) THEN SkipSpace(text, p + 1) ELSE p

\* greedy .* followed by [\]\}] : the closing brackets after position s,
\* which the backtracking tries from the last one down
CloseCandidates(text, s) ==
  {e \in (s + 1)..Len(text) : IsCloseBracket(text[e])}

Max(S) == CHOOSE x \in S : \A y \in S : y <= x
Min(S) == CHOOSE x \in S : \A y \in S : x <= y

\* a match object: the whole match (group 0) and the two groups
NoMatch ==
  [found |-> FALSE, group0 |-> None, group1 |-> None, group2 |-> None]

\* the rest of the first alternative from position q on (after the fence that
\* starts at p and the optional json):  \s*([\[\{].*[\]\}])\s*FENCE
FencedBodyAt(text, p, q) ==
  LET s == SkipSpace(text, q)
      ends == IF s <= Len(text) /\ IsOpenBracket(text[s])
              THEN {e \in CloseCandidates(text, s) :
                      FenceAt(text, SkipSpace(text, e + 1))}
              ELSE {}
  IN IF ends = {} THEN NoMatch
     ELSE [found |-> TRUE,
           group0 |-> Some(SubText(text, p, SkipSpace(text, Max(ends) + 1) + 2)),
           group1 |-> Some(SubText(text, s, Max(ends))), group2 |-> None]

\* with the optional json taken
FencedWithWordAt(text, p) ==
  IF JsonWordAt(text, p + 3) THEN FencedBodyAt(text, p, p + 7) ELSE NoMatch

\* the optional group is greedy: with json first, then without
FencedEitherAt(text, p, withWord) ==
  IF withWord.found THEN withWord ELSE FencedBodyAt(text, p, p + 3)

\* first alternative at position p:  FENCE(?:json)?\s*([\[\{].*[\]\}])\s*FENCE
FencedAt(text, p) ==
  IF ~FenceAt(text, p) THEN NoMatch
  ELSE FencedEitherAt(text, p, FencedWithWordAt(text, p))

\* BareAt with the closing bracket class forgotten: .* runs to the end
BareAt_ToEnd(text, p) ==
  IF p <= Len(text) /\ IsOpenBracket(text[p])
  THEN [found |-> TRUE, group0 |-> Some(SubText(text, p, Len(text))),
        group1 |-> None, group2 |-> Some(SubText(text, p, Len(text)))]
  ELSE NoMatch

\* second alternative at position p:  ([\[\{].*[\]\}])
BareAt(text, p) ==
  LET ends == IF p <= Len(text) /\ IsOpenBracket(text[p])
              THEN CloseCandidates(text, p)
              ELSE {}
  IN IF ends = {} THEN NoMatch
     ELSE [found |-> TRUE, group0 |-> Some(SubText(text, p, Max(ends))),
           group1 |-> None, group2 |-> Some(SubText(text, p, Max(ends)))]

\* the alternation at one start position: the fenced alternative first
FirstFound(m1, m2) == IF m1.found THEN m1 ELSE m2

MatchAt(text, p) == FirstFound(FencedAt(text, p), BareAt(text, p))

\* re.search: the match at the leftmost start position that has one
RECURSIVE SearchFrom(_, _)
SearchFrom(text, p) ==
  IF p > Len(text) THEN NoMatch
  ELSE LET m == MatchAt(text, p)
       IN IF m.found THEN m ELSE SearchFrom(text, p + 1)

re_search(text) == SearchFrom(text, 1)

\* bool(match.group(i)): the group took part in the match and is not empty
GroupTruthy(group) == group.some /\ group.v # <<>>

\* FirstGroup returning the whole match, fences included
FirstGroup_WholeMatch(match) == match.group0

\* match.group(1) if match.group(1) else match.group(2)
FirstGroup(match) ==
  IF GroupTruthy(match.group1) THEN match.group1 ELSE match.group2

\* the body of extract_json_from_string after the search
ExtractFrom(match) == IF match.found THEN FirstGroup(match) ELSE None

\* extract_json_from_string falling back to the whole text when nothing matches
extract_json_or_text(text) ==
  IF ~text.some \/ text.v = <<>> THEN None
  ELSE IF re_search(text.v).found THEN FirstGroup(re_search(text.v)) ELSE text

\* extract_json_from_string handing the whole text on, with no search
extract_whole_text(text) == IF ~text.some \/ text.v = <<>> THEN None ELSE text

\* extract_json_from_string(text): text is an optional str
extract_json_from_string(text) ==
  IF ~text.some \/ text.v = <<>> THEN None
  ELSE ExtractFrom(re_search(text.v))

(***************************************************************************)
(* JSON values, as json.loads builds them.  One record shape for every     *)
(* Python type: t is the type, s the characters of a str (or the lexeme of *)
(* a float), n the value of an int, keys/items the keys and values of a    *)
(* dict in insertion order, items the elements of a list.                  *)
(***************************************************************************)
JValue(t, s, n, keys, items) ==
  [t |-> t, s |-> s, n |-> n, keys |-> keys, items |-> items]

JNull == JValue("null", <<>>, 0, <<>>, <<>>)
JBool(b) == JValue(IF b THEN "true" ELSE "false", <<>>, 0, <<>>, <<>>)
JInt(n) == JValue("int", <<>>, n, <<>>, <<>>)
JFloat(lexeme) == JValue("float", lexeme, 0, <<>>, <<>>)
JStr(s) == JValue("str", s, 0, <<>>, <<>>)
JList(items) == JValue("list", <<>>, 0, <<>>, items)
JDict(keys, items) == JValue("dict", <<>>, 0, keys, items)

\* Python's None where a list is expected (a return value, the session slot)
PyNone == JValue("None", <<>>, 0, <<>>, <<>>)

\* isinstance(data, list), isinstance(data, dict)
IsList(data) == data.t = "list"
IsDict(data) == data.t = "dict"

\* d[k] = v on a dict held as keys/items: a repeated key keeps its place
DictPut(d, k, v) ==
  IF \E i \in 1..Len(d.keys) : d.keys[i] = k
  THEN LET i == CHOOSE i \in 1..Len(d.keys) : d.keys[i] = k
       IN JDict(d.keys, [d.items EXCEPT ![i] = v])
  ELSE JDict(Append(d.keys, k), Append(d.items, v))

\* d.get(k): the value under k, or absent
DictHas(d, k) == \E i \in 1..Len(d.keys) : d.keys[i] = k
DictGet(d, k) == d.items[CHOOSE i \in 1..Len(d.keys) : d.keys[i] = k]

(***************************************************************************)
(* json.loads, as the json module's decoder and scanner work.  The texts   *)
(* of the model hold no backslash, so string escapes are left out.         *)
(***************************************************************************)
\* json.decoder.WHITESPACE
IsJsonSpace(c) == c \in {" ", "\t", "\n", "\r"}

\* characters below 0x20, which a strict JSON string may not hold
IsControl(c) == c \in {"\t", "\n", "\r", "\f"}

IsDigit(c) == c \in {"0", "1", "2", "3", "4", "5", "6", "7", "8", "9"}

DigitVal(c) ==
  CASE c = "0" -> 0 [] c = "1" -> 1 [] c = "2" -> 2 [] c = "3" -> 3
    [] c = "4" -> 4 [] c = "5" -> 5 [] c = "6" -> 6 [] c = "7" -> 7
    [] c = "8" -> 8 [] c = "9" -> 9

RECURSIVE SkipJsonSpace(_, _)
SkipJsonSpace(text, p) ==
  IF p <= Len(text) /\ IsJsonSpace(text[p])
  THEN SkipJsonSpace(text, p + 1)
  ELSE p

\* the character at p, or "" past the end (s[end:end + 1])
CharAt(text, p) == IF p >= 1 /\ p <= Len(text) THEN text[p] ELSE ""

\* text holds the characters of word from position p on
WordAt(text, p, word) ==
  /\ p + Len(word) - 1 <= Len(text)
  /\ \A i \in 1..Len(word) : text[p + i - 1] = word[i]

JFail == [ok |-> FALSE, val |-> JNull, end |-> 0]
JOk(val, end) == [ok |-> TRUE, val |-> val, end |-> end]

\* the first position at or after p that holds no digit
RECURSIVE SkipDigits(_, _)
SkipDigits(text, p) ==
  IF p <= Len(text) /\ IsDigit(text[p]) THEN SkipDigits(text, p + 1) ELSE p

RECURSIVE DigitsValue(_, _, _, _)
DigitsValue(text, p, q, acc) ==
  IF p >= q THEN acc
  ELSE DigitsValue(text, p + 1, q, 10 * acc + DigitVal(text[p]))

\* NUMBER_RE: (-?(?:0|[1-9][0-9]*))(\.[0-9]+)?([eE][-+]?[0-9]+)?
\* p is the start of the number; a match is an int, or a float with its lexeme
ScanNumber(text, p) ==
  LET d == IF CharAt(text, p) = "-" THEN p + 1 ELSE p
      intEnd == IF CharAt(text, d) = "0" THEN d + 1
                ELSE IF IsDigit(CharAt(text, d)) THEN SkipDigits(text, d)
                ELSE d
      fracEnd == IF CharAt(text, intEnd) = "." /\ IsDigit(CharAt(text, intEnd + 1))
                 THEN SkipDigits(text, intEnd + 1)
                 ELSE intEnd
      expSign == IF CharAt(text, fracEnd + 1) \in {"-", "+"}
                 THEN fracEnd + 2 ELSE fracEnd + 1
      expEnd == IF CharAt(text, fracEnd) \in {"e", "E"} /\ IsDigit(CharAt(text, expSign))
                THEN SkipDigits(text, expSign)
                ELSE fracEnd
  IN IF intEnd = d THEN JFail
     ELSE IF expEnd = intEnd
          THEN JOk(JInt((IF d = p THEN 1 ELSE -1) * DigitsValue(text, d, intEnd, 0)),
                   intEnd)
          ELSE JOk(JFloat(SubSeq(text, p, expEnd - 1)), expEnd)

\* py_scanstring (strict): p is the position after the opening quote
ScanString(text, p) ==
  LET quotes == {e \in p..Len(text) : text[e] = "\""}
  IN IF quotes = {} THEN JFail
     ELSE LET e == Min(quotes)
          IN IF \E i \in p..(e - 1) : IsControl(text[i])
             THEN JFail
             ELSE JOk(JStr(SubSeq(text, p, e - 1)), e + 1)

RECURSIVE scan_once(_, _)
RECURSIVE ArrayItems(_, _, _)
RECURSIVE ObjectPairs(_, _, _)

\* JSONArray: p is the position after "["
JSONArray(text, p) ==
  LET i == SkipJsonSpace(text, p)
  IN IF CharAt(text, i) = "]" THEN JOk(JList(<<>>), i + 1)
     ELSE ArrayItems(text, i, <<>>)

\* the loop of JSONArray: a value, then "]" or "," and the next value
ArrayItems(text, p, values) ==
  LET r == scan_once(text, p)
  IN IF ~r.ok THEN JFail
     ELSE LET j == SkipJsonSpace(text, r.end)
              c == CharAt(text, j)
          IN IF c = "]" THEN JOk(JList(Append(values, r.val)), j + 1)
             ELSE IF c = ","
                  THEN ArrayItems(text, SkipJsonSpace(text, j + 1),
                                  Append(values, r.val))
                  ELSE JFail

\* JSONObject: p is the position after "{"
JSONObject(text, p) ==
  LET i == SkipJsonSpace(text, p)
      c == CharAt(text, i)
  IN IF c = "}" THEN JOk(JDict(<<>>, <<>>), i + 1)
     ELSE IF c = "\"" THEN ObjectPairs(text, i + 1, JDict(<<>>, <<>>))
     ELSE JFail

\* the loop of JSONObject: p is the position after the opening quote of a key
ObjectPairs(text, p, d) ==
  LET k == ScanString(text, p)
  IN IF ~k.ok THEN JFail
     ELSE LET colon == SkipJsonSpace(text, k.end)
          IN IF CharAt(text, colon) # ":" THEN JFail
             ELSE LET r == scan_once(text, SkipJsonSpace(text, colon + 1))
                  IN IF ~r.ok THEN JFail
                     ELSE LET j == SkipJsonSpace(text, r.end)
                              c == CharAt(text, j)
                              d2 == DictPut(d, k.val.s, r.val)
                          IN IF c = "}" THEN JOk(d2, j + 1)
                             ELSE IF c = ","
                                  THEN LET q == SkipJsonSpace(text, j + 1)
                                       IN IF CharAt(text, q) = "\""
                                          THEN ObjectPairs(text, q + 1, d2)
                                          ELSE JFail
                                  ELSE JFail

\* json.scanner.py_make_scanner._scan_once
scan_once(text, p) ==
  LET c == CharAt(text, p)
  IN IF c = "" THEN JFail
     ELSE IF c = "\"" THEN ScanString(text, p + 1)
     ELSE IF c = "{" THEN JSONObject(text, p + 1)
     ELSE IF c = "[" THEN JSONArray(text, p + 1)
     ELSE IF c = "n" /\ WordAt(text, p, <<"n", "u", "l", "l">>)
          THEN JOk(JNull, p + 4)
     ELSE IF c = "t" /\ WordAt(text, p, <<"t", "r", "u", "e">>)
          THEN JOk(JBool(TRUE), p + 4)
     ELSE IF c = "f" /\ WordAt(text, p, <<"f", "a", "l", "s", "e">>)
          THEN JOk(JBool(FALSE), p + 5)
     ELSE IF IsDigit(c) \/ (c = "-" /\ IsDigit(CharAt(text, p + 1)))
          THEN ScanNumber(text, p)
     ELSE IF c = "N" /\ WordAt(text, p, <<"N", "a", "N">>)
          THEN JOk(JFloat(<<"N", "a", "N">>), p + 3)
     ELSE IF c = "I" /\ WordAt(text, p, <<"I", "n", "f", "i", "n", "i", "t", "y">>)
          THEN JOk(JFloat(SubSeq(text, p, p + 7)), p + 8)
     ELSE IF c = "-" /\ WordAt(text, p + 1, <<"I", "n", "f", "i", "n", "i", "t", "y">>)
          THEN JOk(JFloat(SubSeq(text, p, p + 8)), p + 9)
     ELSE JFail

\* json.loads(s): the value, or a JSONDecodeError (ok = FALSE)
json_loads(s) ==
  LET r == scan_once(s, SkipJsonSpace(s, 1))
  IN IF ~r.ok THEN JFail
     ELSE IF SkipJsonSpace(s, r.end) # Len(s) + 1 THEN JFail
     ELSE r

(***************************************************************************)
(* The agent call and the response pipeline.                               *)
(***************************************************************************)
\* the st.error messages of run_agent and get_agent_response_async
MSG_CREDENTIALS == "Azure credentials for the AI Agent are not fully configured."
MSG_AUTH == "Authentication failed."
MSG_HTTP == "An error occurred while communicating with the Azure AI service."
MSG_TIMEOUT == "The request to the AI agent timed out."
MSG_UNEXPECTED == "An unexpected error occurred"
MSG_EXTRACT == "Could not extract valid JSON data from the agent's response."
MSG_FORMAT == "The agent returned data in an unexpected format."
MSG_PARSE == "Failed to parse the JSON data received from the agent."
NO_MSG == ""

\* what the external agent call can end with: a response text, or one of
\* the failures run_agent catches
AgentKinds ==
  {"text", "missing_credentials", "auth_error", "http_error", "timeout",
   "exception"}

\* run_agent(user_input): the raw response, or None with the error shown
run_agent(agent) ==
  CASE agent.kind = "missing_credentials" ->
         [response |-> None, error |-> MSG_CREDENTIALS]
    [] agent.kind = "auth_error" -> [response |-> None, error |-> MSG_AUTH]
    [] agent.kind = "http_error" -> [response |-> None, error |-> MSG_HTTP]
    [] agent.kind = "timeout" -> [response |-> None, error |-> MSG_TIMEOUT]
    [] agent.kind = "exception" -> [response |-> None, error |-> MSG_UNEXPECTED]
    [] OTHER -> [response |-> Some(agent.text), error |-> NO_MSG]

\* NormalizeParsed rejecting a single object as an unexpected format
NormalizeParsed_RejectDict(parsed) ==
  IF ~parsed.ok
  THEN [result |-> PyNone, error |-> MSG_PARSE, data |-> PyNone]
  ELSE IF IsList(parsed.val)
       THEN [result |-> parsed.val, error |-> NO_MSG, data |-> parsed.val]
       ELSE [result |-> PyNone, error |-> MSG_FORMAT, data |-> parsed.val]

\* NormalizeParsed wrapping whatever it parsed, a list included
NormalizeParsed_AlwaysWrap(parsed) ==
  IF ~parsed.ok
  THEN [result |-> PyNone, error |-> MSG_PARSE, data |-> PyNone]
  ELSE IF IsList(parsed.val) \/ IsDict(parsed.val)
       THEN [result |-> JList(<<parsed.val>>), error |-> NO_MSG,
             data |-> parsed.val]
       ELSE [result |-> PyNone, error |-> MSG_FORMAT, data |-> parsed.val]

\* NormalizeParsed returning a single object as it is
NormalizeParsed_NoWrap(parsed) ==
  IF ~parsed.ok
  THEN [result |-> PyNone, error |-> MSG_PARSE, data |-> PyNone]
  ELSE IF IsList(parsed.val) \/ IsDict(parsed.val)
       THEN [result |-> parsed.val, error |-> NO_MSG, data |-> parsed.val]
       ELSE [result |-> PyNone, error |-> MSG_FORMAT, data |-> parsed.val]

\* the branches after json.loads: a list as it is, a dict wrapped in a
\* list, anything else rejected; a JSONDecodeError reported
NormalizeParsed(parsed) ==
  IF ~parsed.ok
  THEN [result |-> PyNone, error |-> MSG_PARSE, data |-> PyNone]
  ELSE IF IsList(parsed.val)
       THEN [result |-> parsed.val, error |-> NO_MSG, data |-> parsed.val]
       ELSE IF IsDict(parsed.val)
            THEN [result |-> JList(<<parsed.val>>), error |-> NO_MSG,
                  data |-> parsed.val]
            ELSE [result |-> PyNone, error |-> MSG_FORMAT, data |-> parsed.val]

\* the try block of get_agent_response_async
normalize(json_string) == NormalizeParsed(json_loads(json_string))

\* get_agent_response_async from "try:" on, json_string being a str
AfterExtraction(raw_response, json_string, norm) ==
  [raw_response |-> raw_response, json_string |-> json_string,
   loads_called |-> TRUE, data |-> norm.data,
   error |-> norm.error, result |-> norm.result]

\* AfterRunAgent handing the raw response to json.loads, with no extraction
AfterRunAgent_NoExtraction(raw_response, json_string) ==
  AfterExtraction(raw_response, raw_response, normalize(raw_response.v))

\* get_agent_response_async from the extraction on, raw_response being a str
AfterRunAgent(raw_response, json_string) ==
  IF ~json_string.some
  THEN [raw_response |-> raw_response, json_string |-> None,
        loads_called |-> FALSE, data |-> PyNone,
        error |-> MSG_EXTRACT, result |-> PyNone]
  ELSE AfterExtraction(raw_response, json_string, normalize(json_string.v))

\* get_agent_response_async, ran being what run_agent returned
PipelineFrom(ran) ==
  IF ~ran.response.some
  THEN [raw_response |-> None, json_string |-> None,
        loads_called |-> FALSE, data |-> PyNone,
        error |-> ran.error, result |-> PyNone]
  ELSE AfterRunAgent(ran.response, extract_json_from_string(ran.response))

\* get_agent_response_async(user_input), with its locals kept for inspection:
\* raw_response, json_string, whether json.loads was called, the parsed data,
\* the st.error message shown and the value returned
get_agent_response_async(agent) == PipelineFrom(run_agent(agent))

\* the error kinds of the pipeline, read off the message shown
ErrorKind(error) ==
  CASE error = NO_MSG -> "Ok"
    [] error = MSG_EXTRACT -> "ExtractionFailed"
    [] error \in {MSG_FORMAT, MSG_PARSE} -> "MalformedPayload"
    [] OTHER -> "NoResponse"

(***************************************************************************)
(* What the agent can answer.  A reply is a failure of the call, or a text *)
(* pre \o open \o body \o close \o post; when the agent wrote the JSON     *)
(* value val as body, hasVal is TRUE.                                      *)
(***************************************************************************)
\* json.dumps-like writing of a value; sp is the whitespace put after
\* "[", "{", "," and ":" and before "]" and "}"
Quoted(s) == <<"\"">> \o s \o <<"\"">>

RECURSIVE IntDigits(_)
IntDigits(n) ==
  LET d == <<"0", "1", "2", "3", "4", "5", "6", "7", "8", "9">>[(n % 10) + 1]
  IN IF n < 10 THEN <<d>> ELSE IntDigits(n \div 10) \o <<d>>

RECURSIVE Dumps(_, _)
RECURSIVE DumpItems(_, _, _)
RECURSIVE DumpPairs(_, _, _, _)
Dumps(v, sp) ==
  CASE v.t = "null" -> <<"n", "u", "l", "l">>
    [] v.t = "true" -> <<"t", "r", "u", "e">>
    [] v.t = "false" -> <<"f", "a", "l", "s", "e">>
    [] v.t = "int" -> IF v.n < 0 THEN <<"-">> \o IntDigits(-v.n) ELSE IntDigits(v.n)
    [] v.t = "float" -> v.s
    [] v.t = "str" -> Quoted(v.s)
    [] v.t = "list" ->
         IF v.items = <<>> THEN <<"[", "]">>
         ELSE <<"[">> \o sp \o DumpItems(v.items, 1, sp) \o sp \o <<"]">>
    [] v.t = "dict" ->
         IF v.keys = <<>> THEN <<"{", "}">>
         ELSE <<"{">> \o sp \o DumpPairs(v.keys, v.items, 1, sp) \o sp \o <<"}">>

DumpItems(items, i, sp) ==
  IF i = Len(items) THEN Dumps(items[i], sp)
  ELSE Dumps(items[i], sp) \o <<",">> \o sp \o DumpItems(items, i + 1, sp)

DumpPairs(keys, items, i, sp) ==
  LET pair == Quoted(keys[i]) \o <<":">> \o sp \o Dumps(items[i], sp)
  IN IF i = Len(keys) THEN pair
     ELSE pair \o <<",">> \o sp \o DumpPairs(keys, items, i + 1, sp)

\* the fence markers an answer can carry
Fence == <<BackQuote, BackQuote, BackQuote>>
FenceJson == Fence \o <<"j", "s", "o", "n">>
FenceJSON == Fence \o <<"J", "S", "O", "N">>

TextReply(pre, open, body, close, post, hasVal, val) ==
  [kind |-> "text", text |-> pre \o open \o body \o close \o post,
   pre |-> pre, open |-> open, body |-> body, close |-> close, post |-> post,
   hasVal |-> hasVal, val |-> val]

FailedReply(kind) ==
  [kind |-> kind, text |-> <<>>,
   pre |-> <<>>, open |-> <<>>, body |-> <<>>, close |-> <<>>, post |-> <<>>,
   hasVal |-> FALSE, val |-> JNull]

PlainReply(text) == TextReply(<<>>, <<>>, text, <<>>, <<>>, FALSE, JNull)

\* the answer of the end-to-end scenario: a json fence around one record
\* with the keys extract, code and description
E2EText ==
  <<BackQuote, BackQuote, BackQuote, "j", "s", "o", "n", "\n", "[", "{",
    "\"", "e", "x", "t", "r", "a", "c", "t", "\"", ":", "\"", "H", "T",
    "A", "\"", ",", "\"", "c", "o", "d", "e", "\"", ":", "\"", "I", "1",
    "0", "\"", ",", "\"", "d", "e", "s", "c", "r", "i", "p", "t", "i", "o",
    "n", "\"", ":", "\"", "H", "y", "p", "e", "r", "t", "e", "n", "s", "i",
    "o", "n", "\"", "}", "]", "\n", BackQuote, BackQuote, BackQuote>>

E2EReply == PlainReply(E2EText)

\* ---- the JSON values an answer can carry ----
\* the longest list an answer carries
MaxItems == 2

KeyCode == <<"c", "o", "d", "e">>
KeyK == <<"k">>
RecordA == JDict(<<KeyCode>>, <<JStr(<<"A">>)>>)
RecordB == JDict(<<KeyCode, KeyK>>, <<JStr(<<"B">>), JInt(1)>>)
\* a record with no code
RecordK == JDict(<<KeyK>>, <<JInt(1)>>)

Scalars == {JInt(1), JStr(<<"h">>), JStr(<<"[", "1", "]">>), JNull, JBool(TRUE)}
Dicts == {JDict(<<>>, <<>>), RecordA, RecordB}
Elems == {JInt(1), JStr(<<"h">>), JNull, RecordA, RecordB, JList(<<>>)}

RECURSIVE SeqsUpTo(_, _)
SeqsUpTo(S, n) ==
  IF n = 0 THEN {<<>>}
  ELSE LET shorter == SeqsUpTo(S, n - 1)
       IN shorter \cup {Append(q, x) : q \in shorter, x \in S}

Lists == {JList(q) : q \in SeqsUpTo(Elems, MaxItems)}
Values == Scalars \cup Dicts \cup Lists

\* the whitespace styles of the writing: compact, spaced, one item per line
Styles == {<<>>, <<" ">>, <<"\n">>}

\* how the value is wrapped: not at all, or in a fence with or without the
\* json label and with or without whitespace inside the fence
Wrappings ==
  {[open |-> <<>>, close |-> <<>>],
   [open |-> FenceJson \o <<"\n">>, close |-> <<"\n">> \o Fence],
   [open |-> FenceJson, close |-> Fence],
   [open |-> FenceJSON \o <<" ">>, close |-> <<" ">> \o Fence],
   [open |-> Fence, close |-> Fence]}

\* the wrappings that are a fence labelled json
IsJsonFence(open, close) ==
  /\ Len(open) >= 7
  /\ SubSeq(open, 1, 3) = Fence
  /\ JsonWordAt(open, 4)
  /\ \A i \in 8..Len(open) : IsSpace(open[i])
  /\ Len(close) >= 3
  /\ SubSeq(close, Len(close) - 2, Len(close)) = Fence
  /\ \A i \in 1..(Len(close) - 3) : IsSpace(close[i])

\* what can stand before and after the wrapped value: nothing, prose, prose
\* with brackets, a stray bracket, a second fenced block
Prose == <<"x", " ">>
SecondBlock == FenceJson \o <<"[", "2", "]">> \o Fence
Surroundings ==
  {<<>>, Prose, <<"[", "x", "]", " ">>, <<" ", "{", "x", "}">>, <<"[">>, <<"]">>,
   <<" ">> \o SecondBlock \o <<" ">>}

\* the values written in every surrounding
SampleValues == {JList(<<RecordA>>), RecordA, JInt(1), JList(<<>>)}

\* every value in every style and wrapping, alone or between plain prose
IsWrittenReply(reply) ==
  \E v \in Values, sp \in Styles, w \in Wrappings,
     pre \in {<<>>, Prose}, post \in {<<>>, Prose} :
    reply = TextReply(pre, w.open, Dumps(v, sp), w.close, post, TRUE, v)

\* the sample values in every wrapping and every pair of surroundings
IsSurroundedReply(reply) ==
  \E v \in SampleValues, w \in Wrappings,
     pre \in Surroundings, post \in Surroundings :
    reply = TextReply(pre, w.open, Dumps(v, <<>>), w.close, post, TRUE, v)

\* ---- arbitrary short texts ----
\* the longest arbitrary text, in pieces
MaxPieces == 4

Pieces ==
  {Fence, <<"j", "s", "o", "n">>, <<"[">>, <<"]">>, <<"{">>, <<"}">>, <<" ">>,
   <<"1">>, <<",">>, <<"\"", "k", "\"", ":">>, <<"\"", "k", "\"">>, <<"x">>,
   <<"\f">>}

RECURSIVE Concat(_, _)
Concat(parts, i) ==
  IF i > Len(parts) THEN <<>> ELSE parts[i] \o Concat(parts, i + 1)

\* every text made of at most MaxPieces pieces
IsArbitraryReply(reply) ==
  \E n \in 0..MaxPieces : \E parts \in [1..n -> Pieces] :
    reply = PlainReply(Concat(parts, 1))

\* the failures of the call
FailedReplies == {FailedReply(k) : k \in AgentKinds \ {"text"}}

\* every answer the pipeline is checked on
IsPipelineReply(reply) ==
  \/ reply \in FailedReplies
  \/ IsArbitraryReply(reply)
  \/ IsWrittenReply(reply)
  \/ IsSurroundedReply(reply)
  \/ reply = E2EReply

\* the answers a session is checked on: each failure of the call, and one
\* text for each way the pipeline and the display can go
SessionReplies ==
  FailedReplies \cup
  {TextReply(<<>>, FenceJson \o <<"\n">>, Dumps(JList(<<RecordA, RecordB>>), <<>>),
             <<"\n">> \o Fence, <<>>, TRUE, JList(<<RecordA, RecordB>>)),
   TextReply(<<>>, <<>>, Dumps(JList(<<RecordB>>), <<>>), <<>>, <<>>,
             TRUE, JList(<<RecordB>>)),
   TextReply(Prose, <<>>, Dumps(RecordA, <<" ">>), <<>>, <<>>, TRUE, RecordA),
   TextReply(<<>>, <<>>, Dumps(JList(<<RecordK, RecordA>>), <<>>), <<>>, <<>>,
             TRUE, JList(<<RecordK, RecordA>>)),
   TextReply(<<>>, <<>>, Dumps(JList(<<>>), <<>>), <<>>, <<>>, TRUE, JList(<<>>)),
   TextReply(<<>>, <<>>, Dumps(JList(<<JInt(1)>>), <<>>), <<>>, <<>>,
             TRUE, JList(<<JInt(1)>>)),
   TextReply(<<>>, <<>>, Dumps(JInt(1), <<>>), <<>>, <<>>, TRUE, JInt(1)),
   PlainReply(Prose),
   PlainReply(<<"[", "1", "}">>)}

(***************************************************************************)
(* The Streamlit session.  Every user interaction reruns the script from   *)
(* top to bottom; the Analyze Notes handler blocks in                      *)
(* get_agent_response_sync until the agent call ends.                      *)
(***************************************************************************)
VARIABLES
  logged_in,            \* st.user.is_logged_in
  doctor_notes,         \* the text area's value
  pc,                   \* "idle"; inside get_agent_response_sync "started",
                        \* "retrieving" (awaiting get_agent) or "awaiting"
                        \* (awaiting get_response)
  agent,                \* what awaiting get_response gives (or gave last)
  requests,             \* the requests the last submission has sent, by name
  answered,             \* how many of them have ended (answer, error, timeout)
  took,                 \* how long the wait_for in progress is going to last
  waited,               \* the time the last submission has spent in wait_for
  call,                 \* locals and result of the last get_agent_response_async
  agent_response_data,  \* st.session_state.agent_response_data
  replaced,             \* what the last store into agent_response_data overwrote
  validation_states,    \* st.session_state.validation_states: row index -> bool
  checkboxes,           \* the checkbox widgets of the last run, by row index
  shown,                \* the status messages of the last run
  recap,                \* the recap dialog of the last run
  main                  \* the sample script agent.py: position and locals of
                        \* main, and the threads its agent has on the service

vars ==
  <<logged_in, doctor_notes, pc, agent, requests, answered, took, waited, call,
    agent_response_data, replaced, validation_states, checkboxes, shown, recap,
    main>>

\* the state of the application app.py
app_vars ==
  <<logged_in, doctor_notes, pc, agent, requests, answered, took, waited, call,
    agent_response_data, replaced, validation_states, checkboxes, shown, recap>>

\* the part of the state that belongs to run_agent
run_vars == <<requests, answered, took, waited>>

\* the other status messages of the script
MSG_NO_NOTES == "Please paste the doctor's notes into the text area before analyzing."
MSG_LOGIN == "Please log in using the sidebar to use the analysis feature."
MSG_NO_CODES == "The analysis did not return any specific codes for the provided notes."
MSG_SUCCESS == "Analysis complete."
MSG_BAD_ROWS == "Agent response data is not in the expected format (list of dictionaries)."
MSG_BEGIN == "Enter doctor's notes and click 'Analyze Notes' to begin."

\* the notes a user can have in the text area: none, blanks, a note
NotesChoices == {<<>>, <<" ", "\n">>, <<"H", "T", "A">>}

\* str.strip()
RECURSIVE StripRight(_)
StripRight(text) ==
  IF text # <<>> /\ IsSpace(text[Len(text)])
  THEN StripRight(SubSeq(text, 1, Len(text) - 1))
  ELSE text

\* Strip that strips nothing
Strip_Nothing(text) == text

Strip(text) == StripRight(SubSeq(text, SkipSpace(text, 1), Len(text)))

\* no agent call yet
NoReply == FailedReply("none")

\* AGENT_CALL_TIMEOUT, in seconds
AGENT_CALL_TIMEOUT == 120

\* how long the service can take over a request: it answers at once, just
\* in time, or not in time
Latencies == {1, AGENT_CALL_TIMEOUT - 1, AGENT_CALL_TIMEOUT + 1}

\* the asyncio.TimeoutError of wait_for, as run_agent sees it
TimedOut == FailedReply("timeout")

\* wait_for that never gives up
wait_for_NoTimeout(reply, latency) == [result |-> reply, took |-> latency]

\* await asyncio.wait_for(request, timeout=AGENT_CALL_TIMEOUT), the service
\* answering the request with reply after latency: what the await gives and
\* how long it lasts
wait_for(reply, latency) ==
  IF latency < AGENT_CALL_TIMEOUT
  THEN [result |-> reply, took |-> latency]
  ELSE [result |-> TimedOut, took |-> AGENT_CALL_TIMEOUT]

\* the answer of client.agents.get_agent: the agent definition
AgentDefinition == FailedReply("definition")

\* the errors the service (or the SDK) can answer a request with
ServiceFailures == {"auth_error", "http_error", "exception"}

\* what get_agent can be answered with
GetAgentReplies ==
  {AgentDefinition} \cup {FailedReply(k) : k \in ServiceFailures}

\* the requests of one run_agent, none sent yet
NoRequests == [get_agent |-> 0, get_response |-> 0]

\* Sent with the request issued twice
Sent_Duplicated(sent, name) == [sent EXCEPT ![name] = @ + 2]

\* one request of the given name goes out
Sent(sent, name) == [sent EXCEPT ![name] = @ + 1]

\* the requests sent and not ended yet
InFlight(sent, ended) == sent.get_agent + sent.get_response - ended

\* Resume going back to the agent when the call gave nothing
Resume_RetryOnNone(response_data) ==
  IF response_data = PyNone THEN "retrieving" ELSE "idle"

\* where the script is once get_agent_response_sync has returned: past the
\* handler, whatever the call gave
Resume(response_data) == "idle"
NoCall ==
  [raw_response |-> None, json_string |-> None, loads_called |-> FALSE,
   data |-> PyNone, error |-> NO_MSG, result |-> PyNone]

EmptyDict == <<>>
NoRecap == [open |-> FALSE, rows |-> <<>>, codes |-> <<>>]

\* bool(x) of a list or None
Truthy(x) == IsList(x) /\ x.items # <<>>

\* AllDicts with the check of the elements left out
AllDicts_Unchecked(results) == TRUE

\* all(isinstance(item, dict) for item in results)
AllDicts(results) == \A i \in 1..Len(results.items) : IsDict(results.items[i])

\* what a row of pd.DataFrame(results) holds under 'code': the record's
\* value, NaN when only other records have the key, 'N/A' (the default of
\* row.get) when no record has it
RowCode(results, i) ==
  IF DictHas(results.items[i], KeyCode) THEN DictGet(results.items[i], KeyCode)
  ELSE IF \E j \in 1..Len(results.items) : DictHas(results.items[j], KeyCode)
       THEN JFloat(<<"N", "a", "N">>)
       ELSE JStr(<<"N", "/", "A">>)

\* st.checkbox(key=validate_idx, value=current): a widget keeps its state
\* from the last run when it was rendered there with the same key and the
\* same parameters; otherwise it starts from value
CheckboxValue(boxes, idx, current) ==
  IF idx \in DOMAIN boxes /\ boxes[idx].value = current
  THEN boxes[idx].checked
  ELSE current

\* validation_states.get(key, False)
StateGet(states, idx) == IF idx \in DOMAIN states THEN states[idx] ELSE FALSE

\* ValidatedRows taking every row, marked or not
RECURSIVE ValidatedRows_All(_, _, _)
ValidatedRows_All(states, i, n) ==
  IF i >= n THEN <<>> ELSE <<i>> \o ValidatedRows_All(states, i + 1, n)

\* the rows whose flag is set, in order (the loop of the submit handler)
RECURSIVE ValidatedRows(_, _, _)
ValidatedRows(states, i, n) ==
  IF i >= n THEN <<>>
  ELSE IF StateGet(states, i)
       THEN <<i>> \o ValidatedRows(states, i + 1, n)
       ELSE ValidatedRows(states, i + 1, n)

\* the "Display Results and Validation" part of the script: the checkbox
\* loop, and on a form submission the recap dialog
Display(data, states, boxes, submitted, loggedIn, analyzeClicked) ==
  IF Truthy(data)
  THEN IF ~AllDicts(data)
       THEN [validation_states |-> states, checkboxes |-> EmptyDict,
             recap |-> NoRecap, shown |-> {MSG_BAD_ROWS}]
       ELSE LET n == Len(data.items)
                rows == 0..(n - 1)
                ticked == [i \in rows |->
                             CheckboxValue(boxes, i, StateGet(states, i))]
                after == [i \in (DOMAIN states) \cup rows |->
                            IF i \in rows THEN ticked[i] ELSE states[i]]
                marked == ValidatedRows(after, 0, n)
            IN [validation_states |-> after,
                checkboxes |-> [i \in rows |->
                                  [value |-> StateGet(states, i),
                                   checked |-> ticked[i]]],
                recap |-> IF submitted
                          THEN [open |-> TRUE, rows |-> marked,
                                codes |-> [k \in 1..Len(marked) |->
                                             RowCode(data, marked[k] + 1)]]
                          ELSE NoRecap,
                shown |-> {}]
  ELSE [validation_states |-> states, checkboxes |-> EmptyDict,
        recap |-> NoRecap,
        shown |-> IF data = PyNone /\ loggedIn /\ ~analyzeClicked
                  THEN {MSG_BEGIN} ELSE {}]

\* a run of the script that reaches no agent call and no form submission:
\* the login warning, then the display
PlainRun(loggedIn, data, states, boxes, analyzeClicked, warning) ==
  LET d == Display(data, states, boxes, FALSE, loggedIn, analyzeClicked)
  IN /\ validation_states' = d.validation_states
     /\ checkboxes' = d.checkboxes
     /\ recap' = d.recap
     /\ shown' = d.shown \cup warning
                   \cup (IF loggedIn THEN {} ELSE {MSG_LOGIN})

\* a new session (first page load, or the reload after st.login / st.logout):
\* the session state is initialised and the script has run once
FirstRun(loggedIn) ==
  Display(PyNone, EmptyDict, EmptyDict, FALSE, loggedIn, FALSE)

\* the local thread of main before the loop: "thread: AzureAIAgentThread = None"
NoThread == 0

\* agent.py with main at its first line, USER_INPUTS holding inputs entries
MainAt(inputs) ==
  [pc |-> "enter", inputs |-> inputs, done |-> 0, thread |-> NoThread,
   response |-> NoThread, threads |-> {}, deleted |-> {},
   client |-> "none", raised |-> FALSE, agent_deleted |-> FALSE]

\* the sample script is not running
MainNotRun == MainAt(0)

Init ==
  /\ main = MainNotRun
  /\ logged_in \in BOOLEAN
  /\ doctor_notes = <<>>
  /\ pc = "idle"
  /\ agent = NoReply
  /\ requests = NoRequests
  /\ answered = 0
  /\ took = 0
  /\ waited = 0
  /\ call = NoCall
  /\ agent_response_data = PyNone
  /\ replaced = PyNone
  /\ validation_states = EmptyDict
  /\ checkboxes = FirstRun(logged_in).checkboxes
  /\ recap = FirstRun(logged_in).recap
  /\ shown = FirstRun(logged_in).shown
               \cup (IF logged_in THEN {} ELSE {MSG_LOGIN})

NewSession(loggedIn) ==
  /\ logged_in' = loggedIn
  /\ doctor_notes' = <<>>
  /\ pc' = "idle"
  /\ agent' = NoReply
  /\ requests' = NoRequests
  /\ answered' = 0
  /\ took' = 0
  /\ waited' = 0
  /\ call' = NoCall
  /\ agent_response_data' = PyNone
  /\ replaced' = PyNone
  /\ validation_states' = EmptyDict
  /\ checkboxes' = FirstRun(loggedIn).checkboxes
  /\ recap' = FirstRun(loggedIn).recap
  /\ shown' = FirstRun(loggedIn).shown
                \cup (IF loggedIn THEN {} ELSE {MSG_LOGIN})
  /\ UNCHANGED main

\* st.login / st.logout: the browser is redirected and a new session starts
Login ==
  /\ pc = "idle"
  /\ ~logged_in
  /\ NewSession(TRUE)

Logout ==
  /\ pc = "idle"
  /\ logged_in
  /\ NewSession(FALSE)

\* the user changes the text area: a rerun with no button pressed
EditNotes(notes) ==
  /\ pc = "idle"
  /\ notes # doctor_notes
  /\ doctor_notes' = notes
  /\ PlainRun(logged_in, agent_response_data, validation_states, checkboxes,
              FALSE, {})
  /\ UNCHANGED <<logged_in, pc, agent, call, agent_response_data, replaced>>
  /\ UNCHANGED run_vars
  /\ UNCHANGED main

\* Analyze Notes clicked with blank notes: the warning, no agent call
AnalyzeBlank ==
  /\ pc = "idle"
  /\ logged_in
  /\ Strip(doctor_notes) = <<>>
  /\ PlainRun(logged_in, agent_response_data, validation_states, checkboxes,
              TRUE, {MSG_NO_NOTES})
  /\ UNCHANGED <<logged_in, doctor_notes, pc, agent, call, agent_response_data,
                 replaced>>
  /\ UNCHANGED run_vars
  /\ UNCHANGED main

\* Analyze Notes clicked with notes: the handler enters
\* get_agent_response_sync and run_agent starts
AnalyzeStart ==
  /\ pc = "idle"
  /\ logged_in
  /\ Strip(doctor_notes) # <<>>
  /\ pc' = "started"
  /\ agent' = NoReply
  /\ requests' = NoRequests
  /\ answered' = 0
  /\ took' = 0
  /\ waited' = 0
  /\ UNCHANGED <<logged_in, doctor_notes, call, agent_response_data, replaced,
                 validation_states, checkboxes, shown, recap>>
  /\ UNCHANGED main

\* run_agent finds the credentials and awaits get_agent, which the service
\* will answer with reply after latency
GetAgentStarts(reply, latency) ==
  /\ pc = "started"
  /\ pc' = "retrieving"
  /\ agent' = wait_for(reply, latency).result
  /\ took' = wait_for(reply, latency).took
  /\ requests' = Sent(requests, "get_agent")
  /\ UNCHANGED <<logged_in, doctor_notes, answered, waited, call,
                 agent_response_data, replaced, validation_states, checkboxes,
                 shown, recap>>
  /\ UNCHANGED main

\* get_agent gave the definition: run_agent builds the agent and awaits
\* get_response, which the service will answer with reply after latency
GetAgentReturns(reply, latency) ==
  /\ pc = "retrieving"
  /\ agent = AgentDefinition
  /\ reply.kind \in {"text"} \cup ServiceFailures
  /\ pc' = "awaiting"
  /\ agent' = wait_for(reply, latency).result
  /\ took' = wait_for(reply, latency).took
  /\ waited' = waited + took
  /\ requests' = Sent(requests, "get_response")
  /\ answered' = answered + 1
  /\ UNCHANGED <<logged_in, doctor_notes, call, agent_response_data, replaced,
                 validation_states, checkboxes, shown, recap>>
  /\ UNCHANGED main

\* StoreResult keeping the previous batch when the submission failed
StoreResult_KeepOnFailure(previous, response_data) ==
  IF response_data = PyNone THEN previous ELSE response_data

\* st.session_state.agent_response_data = response_data
StoreResult(previous, response_data) == response_data

\* the message of the handler after the call: none on None (run_agent or
\* get_agent_response_async has shown the error), the info on an empty list,
\* the success otherwise
HandlerMessage(response_data) ==
  IF response_data = PyNone THEN {}
  ELSE IF response_data.items = <<>> THEN {MSG_NO_CODES}
  ELSE {MSG_SUCCESS}

\* the handler after get_agent_response_sync returned r: the result is
\* stored, validation_states reset, the message shown; then the display, d
HandlerStores(r, stored, d) ==
  /\ call' = r
  /\ agent_response_data' = stored
  /\ replaced' = agent_response_data
  /\ validation_states' = d.validation_states
  /\ checkboxes' = d.checkboxes
  /\ recap' = d.recap
  /\ shown' = (IF r.error = NO_MSG THEN {} ELSE {r.error})
                \cup HandlerMessage(r.result) \cup d.shown

HandlerReturns(r, stored) ==
  HandlerStores(r, stored,
                Display(stored, EmptyDict, checkboxes, FALSE, logged_in, TRUE))

\* the agent call ends: the rest of get_agent_response_async, the handler
\* storing the result and resetting validation_states, then the display
HandlerResumes(r) ==
  HandlerReturns(r, StoreResult(agent_response_data, r.result))

\* run_agent is over: the request in progress, if any, has ended
RunAgentEnds(response_data) ==
  /\ pc' = Resume(response_data)
  /\ answered' = requests.get_agent + requests.get_response
  /\ waited' = waited + took
  /\ took' = 0
  /\ UNCHANGED requests

\* get_response ends: the rest of run_agent and of get_agent_response_async,
\* then the handler and the display
AgentCallCompletes ==
  /\ pc = "awaiting"
  /\ HandlerResumes(get_agent_response_async(agent))
  /\ RunAgentEnds(agent_response_data')
  /\ UNCHANGED <<logged_in, doctor_notes, agent>>
  /\ UNCHANGED main

\* get_agent fails or times out: run_agent shows the error and returns None
\* with no get_response sent; then the handler and the display
GetAgentFails ==
  /\ pc = "retrieving"
  /\ agent # AgentDefinition
  /\ HandlerResumes(get_agent_response_async(agent))
  /\ RunAgentEnds(agent_response_data')
  /\ UNCHANGED <<logged_in, doctor_notes, agent>>
  /\ UNCHANGED main

\* the Azure secrets are incomplete: run_agent shows the error and returns
\* None before any request; then the handler and the display
CredentialsMissing ==
  /\ pc = "started"
  /\ agent' = FailedReply("missing_credentials")
  /\ HandlerResumes(get_agent_response_async(agent'))
  /\ RunAgentEnds(agent_response_data')
  /\ UNCHANGED <<logged_in, doctor_notes>>
  /\ UNCHANGED main

\* the user flips the checkboxes of the rows in toggled and clicks
\* Save Validated Codes: the form's widget values arrive with the rerun
SaveValidated(toggled) ==
  /\ pc = "idle"
  /\ DOMAIN checkboxes # {}
  /\ toggled \subseteq DOMAIN checkboxes
  /\ LET boxes == [i \in DOMAIN checkboxes |->
                     [value |-> checkboxes[i].value,
                      checked |-> IF i \in toggled
                                  THEN ~checkboxes[i].checked
                                  ELSE checkboxes[i].checked]]
         d == Display(agent_response_data, validation_states, boxes, TRUE,
                      logged_in, FALSE)
     IN /\ validation_states' = d.validation_states
        /\ checkboxes' = d.checkboxes
        /\ recap' = d.recap
        /\ shown' = d.shown \cup (IF logged_in THEN {} ELSE {MSG_LOGIN})
  /\ UNCHANGED <<logged_in, doctor_notes, pc, agent, call, agent_response_data,
                 replaced>>
  /\ UNCHANGED run_vars
  /\ UNCHANGED main

Next ==
  \/ Login
  \/ Logout
  \/ \E notes \in NotesChoices : EditNotes(notes)
  \/ AnalyzeBlank
  \/ AnalyzeStart
  \/ CredentialsMissing
  \/ \E reply \in GetAgentReplies, latency \in Latencies :
       GetAgentStarts(reply, latency)
  \/ GetAgentFails
  \/ \E reply \in SessionReplies, latency \in Latencies :
       GetAgentReturns(reply, latency)
  \/ AgentCallCompletes
  \/ \E toggled \in SUBSET (0..(MaxItems - 1)) : SaveValidated(toggled)

Spec == Init /\ [][Next]_vars

(***************************************************************************)
(* The pipeline on its own: one call of get_agent_response_sync from the   *)
(* Analyze Notes handler, taken where run_agent awaits get_response, for   *)
(* every answer of IsPipelineReply that this await can give.               *)
(***************************************************************************)
PipelineInit ==
  /\ main = MainNotRun
  /\ logged_in = TRUE
  /\ doctor_notes = <<"H", "T", "A">>
  /\ pc = "awaiting"
  /\ IsPipelineReply(agent)
  /\ agent.kind # "missing_credentials"
  /\ requests = Sent(Sent(NoRequests, "get_agent"), "get_response")
  /\ answered = 1
  /\ took = IF agent = TimedOut THEN AGENT_CALL_TIMEOUT ELSE 1
  /\ waited = 1
  /\ call = NoCall
  /\ agent_response_data = PyNone
  /\ replaced = PyNone
  /\ validation_states = EmptyDict
  /\ checkboxes = EmptyDict
  /\ recap = NoRecap
  /\ shown = {MSG_BEGIN}

PipelineNext == AgentCallCompletes

PipelineSpec == PipelineInit /\ [][PipelineNext]_vars

(***************************************************************************)
(* The sample script src/agent.py: main retrieves the agent, sends it the  *)
(* entries of USER_INPUTS one after the other, and cleans up.              *)
(***************************************************************************)
\* the longest USER_INPUTS
MaxInputs == 4

\* the ids the service can give a new thread
ThreadIds == 1..(MaxInputs + 1)

\* what one agent.get_response(messages, thread) can do: answer; raise
\* before it has a thread; raise once the thread exists (message or run failed)
ResponseOutcomes == {"answers", "raises_early", "raises_late"}

\* the thread a get_response works on: the one passed, or a new one on the
\* service when None is passed
EnsureThread(thread, fresh) == IF thread = NoThread THEN fresh ELSE thread

\* the script runs on USER_INPUTS lists of every length, the application
\* being left alone
SampleInit ==
  /\ \E inputs \in 0..MaxInputs : main = MainAt(inputs)
  /\ logged_in = FALSE
  /\ doctor_notes = <<>>
  /\ pc = "idle"
  /\ agent = NoReply
  /\ requests = NoRequests
  /\ answered = 0
  /\ took = 0
  /\ waited = 0
  /\ call = NoCall
  /\ agent_response_data = PyNone
  /\ replaced = PyNone
  /\ validation_states = EmptyDict
  /\ checkboxes = EmptyDict
  /\ recap = NoRecap
  /\ shown = {MSG_LOGIN}

\* async with: the credential and the client are opened
MainEnters ==
  /\ main.pc = "enter"
  /\ main' = [main EXCEPT !.pc = "get_agent", !.client = "open"]
  /\ UNCHANGED app_vars

\* await client.agents.get_agent: the definition, or an exception that
\* leaves main through the async with
MainGetAgent(ok) ==
  /\ main.pc = "get_agent"
  /\ main' = IF ok
             THEN [main EXCEPT !.pc = "loop", !.thread = NoThread]
             ELSE [main EXCEPT !.pc = "exit", !.raised = TRUE]
  /\ UNCHANGED app_vars

\* one turn of the loop: await agent.get_response(messages=user_input,
\* thread=thread); the response is bound, thread is not
MainGetResponse(outcome, fresh) ==
  /\ main.pc = "loop"
  /\ main.done < main.inputs
  /\ fresh \notin main.threads \cup main.deleted
  /\ LET used == EnsureThread(main.thread, fresh)
     IN main' =
          CASE outcome = "answers" ->
                 [main EXCEPT !.done = @ + 1, !.response = used,
                              !.threads = @ \cup {used}]
            [] outcome = "raises_late" ->
                 [main EXCEPT !.pc = "finally", !.raised = TRUE,
                              !.threads = @ \cup {used}]
            [] OTHER ->
                 [main EXCEPT !.pc = "finally", !.raised = TRUE]
  /\ UNCHANGED app_vars

\* USER_INPUTS is exhausted
MainLoopEnds ==
  /\ main.pc = "loop"
  /\ main.done = main.inputs
  /\ main' = [main EXCEPT !.pc = "finally"]
  /\ UNCHANGED app_vars

\* finally: await thread.delete() if thread else None
MainFinally ==
  /\ main.pc = "finally"
  /\ main' = IF main.thread # NoThread
             THEN [main EXCEPT !.pc = "exit",
                               !.threads = @ \ {main.thread},
                               !.deleted = @ \cup {main.thread}]
             ELSE [main EXCEPT !.pc = "exit"]
  /\ UNCHANGED app_vars

\* the async with is left: the client and the credential are closed
MainExits ==
  /\ main.pc = "exit"
  /\ main' = [main EXCEPT !.pc = "done", !.client = "closed"]
  /\ UNCHANGED app_vars

SampleNext ==
  \/ MainEnters
  \/ \E ok \in BOOLEAN : MainGetAgent(ok)
  \/ \E outcome \in ResponseOutcomes, fresh \in ThreadIds :
       MainGetResponse(outcome, fresh)
  \/ MainLoopEnds
  \/ MainFinally
  \/ MainExits

SampleSpec == SampleInit /\ [][SampleNext]_vars

(***************************************************************************)
(* Properties.                                                             *)
(***************************************************************************)
\* an agent call has ended and call holds what it gave for the reply agent
CallEnded == pc = "idle" /\ agent.kind # "none"

\* a call has ended whose agent answered with a text
TextAnswered == CallEnded /\ agent.kind = "text"

HasBracket(text) ==
  \E i \in 1..Len(text) : IsOpenBracket(text[i]) \/ IsCloseBracket(text[i])

\* sub is a contiguous part of text
IsSubText(sub, text) ==
  \E i \in 1..(Len(text) - Len(sub) + 1) :
    SubSeq(text, i, i + Len(sub) - 1) = sub

\* the agent wrote a JSON value inside a fence labelled json
WroteInJsonFence == agent.hasVal /\ IsJsonFence(agent.open, agent.close)

IsScalar(v) == ~IsList(v) /\ ~IsDict(v)

\* C1: for every text that holds a well-formed json-fenced JSON array,
\* whatever surrounds the fence, extract_json_from_string returns exactly the
\* text between the fences, without the markers and the whitespace next to
\* them.
C1_FencedArrayExtracted ==
  (TextAnswered /\ WroteInJsonFence /\ IsList(agent.val))
    => call.json_string = Some(agent.body)

\* C2: for every response text without any of the characters [ ] { },
\* extract_json_from_string returns None and get_agent_response_async ends
\* as ExtractionFailed: it returns None, shows the extraction error and never
\* calls json.loads.
C2_NoBracketExtractionFailed ==
  (TextAnswered /\ ~HasBracket(agent.text))
    => /\ call.raw_response = Some(agent.text)
       /\ call.json_string = None
       /\ ~call.loads_called
       /\ call.result = PyNone
       /\ call.error = MSG_EXTRACT
       /\ ErrorKind(call.error) = "ExtractionFailed"
       /\ MSG_EXTRACT \in shown
       /\ agent_response_data = PyNone

\* a bracket-free answer that holds a fence and the word json was processed
C2_Witness ==
  /\ TextAnswered
  /\ ~HasBracket(agent.text)
  /\ \E i \in 1..Len(agent.text) : FenceAt(agent.text, i)
  /\ call.error = MSG_EXTRACT

\* C3: when the parsed payload is a single JSON object, the result is a
\* one-element list holding that object: never rejected, never unwrapped.
C3_ObjectWrapped ==
  /\ (CallEnded /\ IsDict(call.data))
       => /\ call.result = JList(<<call.data>>)
          /\ call.error = NO_MSG
          /\ agent_response_data = call.result
  /\ (TextAnswered /\ agent.hasVal /\ IsDict(agent.val)
        /\ call.json_string = Some(agent.body))
       => call.result = JList(<<agent.val>>)

\* the object {"code":"A"} came back as the list [{"code":"A"}]
C3_Witness ==
  /\ TextAnswered
  /\ agent.hasVal
  /\ agent.val = RecordA
  /\ call.data = RecordA
  /\ call.result = JList(<<RecordA>>)

\* C4 as stated: a bare JSON scalar as payload ends as MalformedPayload,
\* with no batch produced.
C4_ScalarMalformed ==
  (TextAnswered /\ agent.hasVal /\ IsScalar(agent.val) /\ agent.text = agent.body)
    => /\ ErrorKind(call.error) = "MalformedPayload"
       /\ call.result = PyNone

\* C4 as amended: an answer that is a bare JSON scalar with no bracket
\* character in it produces no batch, and the failure reported is
\* ExtractionFailed: no bracketed span is found, so json.loads and the
\* unexpected-format branch are not reached.
C4_ScalarFailsExtraction ==
  (TextAnswered /\ agent.hasVal /\ IsScalar(agent.val) /\ agent.text = agent.body
     /\ ~HasBracket(agent.text))
    => /\ call.result = PyNone
       /\ agent_response_data = PyNone
       /\ ~call.loads_called
       /\ call.error = MSG_EXTRACT
       /\ ErrorKind(call.error) = "ExtractionFailed"

\* the answer "h" (a JSON string) was processed and gave no batch
C4_Witness ==
  /\ TextAnswered
  /\ agent.hasVal
  /\ agent.val = JStr(<<"h">>)
  /\ agent.text = agent.body
  /\ call.result = PyNone
  /\ call.error = MSG_EXTRACT

\* C5: when the parsed payload is a JSON list, the result is that list as it
\* is: same elements, same order, same length, no extra wrapping.
C5_ListAsIs ==
  /\ (CallEnded /\ IsList(call.data))
       => /\ call.result = call.data
          /\ call.error = NO_MSG
          /\ agent_response_data = call.data
  /\ (TextAnswered /\ agent.hasVal /\ IsList(agent.val)
        /\ call.json_string = Some(agent.body))
       => /\ call.result = agent.val
          /\ Len(call.result.items) = Len(agent.val.items)

\* a list of two records came back as a batch of the same two records
C5_Witness ==
  /\ TextAnswered
  /\ agent.hasVal
  /\ agent.val = JList(<<RecordA, RecordB>>)
  /\ call.result = JList(<<RecordA, RecordB>>)
  /\ Len(call.result.items) = 2

KeyExtract == <<"e", "x", "t", "r", "a", "c", "t">>
KeyDescription == <<"d", "e", "s", "c", "r", "i", "p", "t", "i", "o", "n">>
KeyUrl == <<"u", "r", "l">>
E2ERecord ==
  JDict(<<KeyExtract, KeyCode, KeyDescription>>,
        <<JStr(<<"H", "T", "A">>), JStr(<<"I", "1", "0">>),
          JStr(<<"H", "y", "p", "e", "r", "t", "e", "n", "s", "i", "o", "n">>)>>)

\* C6: for the answer that is a json fence around a one-record array with
\* the keys extract, code and description, get_agent_response_async returns a
\* one-element batch whose record has exactly those three values and no url.
C6_EndToEnd ==
  (TextAnswered /\ agent.text = E2EText)
    => /\ call.json_string = Some(SubSeq(E2EText, 9, Len(E2EText) - 4))
       /\ call.result = JList(<<E2ERecord>>)
       /\ Len(call.result.items) = 1
       /\ ~DictHas(call.result.items[1], KeyUrl)
       /\ call.error = NO_MSG

\* the end-to-end answer was processed into a one-element batch
C6_Witness ==
  /\ TextAnswered
  /\ agent.text = E2EText
  /\ IsList(call.result)
  /\ DictGet(call.result.items[1], KeyCode) = JStr(<<"I", "1", "0">>)

\* the fenced alternative of the pattern matches somewhere in text
FenceMatches(text) == {p \in 1..Len(text) : FencedAt(text, p).found}

\* C7: extract_json_from_string prefers fenced content: whenever the text
\* holds a json fence around a bracketed span, the result is the span inside
\* that fence, even if other bracketed text stands outside the fence (before
\* it included); a span outside a fence is returned only when the text holds
\* no such fence.
C7_FencePreferred ==
  /\ (TextAnswered /\ WroteInJsonFence
        /\ (IsList(agent.val) \/ IsDict(agent.val)))
       => call.json_string = Some(agent.body)
  /\ (TextAnswered /\ FenceMatches(agent.text) # {})
       => \E p \in FenceMatches(agent.text) :
            call.json_string = FencedAt(agent.text, p).group1

C9_BatchIsListOrNone ==
  /\ agent_response_data = PyNone \/ IsList(agent_response_data)
  /\ call.result = PyNone \/ IsList(call.result)
  /\ replaced = PyNone \/ IsList(replaced)

\* the session holds a one-element list made from an answer that was a
\* single object
C9_Witness ==
  /\ CallEnded
  /\ agent.hasVal
  /\ IsDict(agent.val)
  /\ IsList(agent_response_data)
  /\ agent_response_data.items = <<agent.val>>

\* C10: every Analyze Notes submission that reaches the agent overwrites the
\* stored result wholesale: afterwards agent_response_data is exactly the
\* outcome of that submission (its batch, or None on failure), whatever was
\* stored before.
C10_LastWriteWins ==
  [][(pc = "awaiting" /\ pc' = "idle")
       => /\ call' = get_agent_response_async(agent)
          /\ agent_response_data' = call'.result
          /\ replaced' = agent_response_data]_vars

\* a failed submission has replaced a non-empty batch by None
C10_Witness ==
  /\ CallEnded
  /\ Truthy(replaced)
  /\ call.result = PyNone
  /\ agent_response_data = PyNone

\* the requests of the last submission still awaiting their answer
Outstanding == InFlight(requests, answered)

\* the whole notes are whitespace
IsBlank(notes) == \A i \in 1..Len(notes) : IsSpace(notes[i])

\* C11 as stated: each submit-notes action triggers exactly one get_response
\* request, awaited before the session state and the UI are updated; never
\* two agent calls of the session are in flight.
C11_ExactlyOneCall ==
  /\ Outstanding <= 1
  /\ CallEnded => requests.get_response = 1

\* C11 as amended: a submission sends at most one get_response request, and
\* exactly one when the credentials are configured and get_agent gave the
\* agent definition (none when the credentials are missing or get_agent
\* failed or timed out); each request is awaited to its end before the
\* session state and the UI are updated, and never two requests of the
\* session are in flight.
C11_AtMostOneCallAwaited ==
  /\ [](/\ Outstanding \in {0, 1}
        /\ requests.get_agent <= 1
        /\ requests.get_response <= requests.get_agent
        /\ pc \in {"idle", "started"} => Outstanding = 0
        /\ pc \in {"retrieving", "awaiting"} => Outstanding = 1
        /\ pc = "awaiting" => requests.get_response = 1
        /\ (CallEnded /\ agent.kind = "text") => requests.get_response = 1
        /\ (CallEnded /\ agent.kind = "missing_credentials")
             => requests = NoRequests)
  /\ [][Outstanding = 1
         => \/ Outstanding' = 0
            \/ UNCHANGED <<call, agent_response_data, replaced,
                           validation_states, checkboxes, shown, recap>>]_vars
  /\ [][(pc = "retrieving" /\ agent = AgentDefinition)
         => requests'.get_response = 1]_vars

\* the get_response request of a second submission is in flight while the
\* batch of the first is still stored
C11_Witness ==
  /\ pc = "awaiting"
  /\ Outstanding = 1
  /\ requests.get_response = 1
  /\ Truthy(agent_response_data)

\* C12 as stated: the agent call of a submission is bounded by 120 time
\* units: a call not answered 120 units after run_agent started it is
\* abandoned and reported as a timeout (run_agent returns None), so no
\* submission waits on the agent longer than 120 units.
C12_SubmissionBounded ==
  /\ (CallEnded /\ agent = TimedOut)
       => call.raw_response = None /\ call.error = MSG_TIMEOUT
  /\ waited + took <= AGENT_CALL_TIMEOUT

\* C12 as amended: each of the two requests of a submission (get_agent,
\* then get_response) is awaited for at most 120 time units; a request not
\* answered within 120 units is abandoned and reported as a timeout failure
\* (run_agent returns None, get_response is not sent after a get_agent
\* timeout); a submission waits at most 120 units per request it sent, 240
\* in all.
C12_EachRequestBounded ==
  /\ took <= AGENT_CALL_TIMEOUT
  /\ waited + took
       <= AGENT_CALL_TIMEOUT * (requests.get_agent + requests.get_response)
  /\ (CallEnded /\ agent = TimedOut)
       => /\ call.raw_response = None
          /\ call.result = PyNone
          /\ call.error = MSG_TIMEOUT
          /\ agent_response_data = PyNone
  /\ (CallEnded /\ agent # TimedOut /\ requests # NoRequests)
       => waited < AGENT_CALL_TIMEOUT
                     * (requests.get_agent + requests.get_response)
  /\ (CallEnded /\ agent = TimedOut /\ requests.get_response = 0)
       => waited = AGENT_CALL_TIMEOUT

\* get_agent took 119 units and get_response then timed out: the submission
\* waited 239 units and ended as a timeout failure
C12_Witness ==
  /\ CallEnded
  /\ agent = TimedOut
  /\ requests.get_response = 1
  /\ waited = 2 * AGENT_CALL_TIMEOUT - 1
  /\ MSG_TIMEOUT \in shown

\* the three error kinds of the pipeline
ErrorKinds == {"NoResponse", "ExtractionFailed", "MalformedPayload"}

\* C13: each of NoResponse, ExtractionFailed and MalformedPayload is
\* terminal for the submission: get_agent_response_async returns None, the
\* error message is shown, the handler runs to its end (None is stored) and
\* no request goes to the agent until the user submits anew.
C13_ErrorsTerminal ==
  /\ [](pc \in {"retrieving", "awaiting"} => Outstanding = 1)
  /\ [][(pc # "idle" /\ Outstanding' = 0 /\ pc' # "started"
           /\ agent'.kind # "text")
         => /\ ErrorKind(call'.error) = "NoResponse"
            /\ call'.result = PyNone]_vars
  /\ [][(pc # "idle" /\ Outstanding' = 0 /\ pc' # "started"
           /\ ErrorKind(call'.error) \in ErrorKinds)
         => /\ pc' = "idle"
            /\ call'.result = PyNone
            /\ agent_response_data' = PyNone
            /\ call'.error \in shown'
            /\ MSG_SUCCESS \notin shown'
            /\ requests' = requests]_vars
  /\ [][(pc = "idle" /\ ErrorKind(call.error) \in ErrorKinds)
         => \/ requests' = requests /\ answered' = answered
            \/ pc' = "started" /\ requests' = NoRequests
            \/ logged_in' # logged_in]_vars

\* a submission ended as MalformedPayload after one get_response request
C13_Witness ==
  /\ CallEnded
  /\ ErrorKind(call.error) = "MalformedPayload"
  /\ call.result = PyNone
  /\ requests.get_response = 1
  /\ call.error \in shown

\* the rows whose checkbox is ticked in the last run
Ticked == {i \in DOMAIN checkboxes : checkboxes[i].checked}

\* every element of the stored batch is a mapping
StoredAllMappings ==
  \A i \in 1..Len(agent_response_data.items) :
    agent_response_data.items[i].t = "dict"

\* C14: when Save Validated Codes is submitted, the recap lists the code
\* field of exactly the rows marked validated, in batch order: no unmarked
\* row, no marked row missing, and no table when no row is marked.
C14_RecapListsMarked ==
  recap.open
    => /\ Len(recap.rows) = Cardinality(Ticked)
       /\ \A k \in 1..Len(recap.rows) : recap.rows[k] \in Ticked
       /\ \A k \in 1..(Len(recap.rows) - 1) : recap.rows[k] < recap.rows[k + 1]
       /\ \A i \in DOMAIN validation_states : validation_states[i] = (i \in Ticked)
       /\ Len(recap.codes) = Len(recap.rows)
       /\ \A k \in 1..Len(recap.rows) :
            LET record == agent_response_data.items[recap.rows[k] + 1]
            IN DictHas(record, KeyCode)
                 => recap.codes[k] = DictGet(record, KeyCode)
       /\ Ticked = {} => recap.codes = <<>>

\* of a batch of two records the second alone was marked and saved: the
\* recap holds its code only
C14_Witness ==
  /\ recap.open
  /\ Len(agent_response_data.items) = 2
  /\ Ticked = {1}
  /\ recap.rows = <<1>>
  /\ recap.codes = <<DictGet(agent_response_data.items[2], KeyCode)>>

\* C15: validation state is reset when new results are fetched: after an
\* Analyze Notes submission has stored its result, no row of the new batch
\* is marked validated until the user checks it; a flag set on row i of the
\* previous batch does not carry over to row i of the new batch.
C15_ResetOnNewResults ==
  [][(pc # "idle" /\ pc' = "idle")
       => /\ \A i \in DOMAIN validation_states' : ~validation_states'[i]
          /\ \A i \in DOMAIN checkboxes' : ~checkboxes'[i].checked]_vars

\* C16: the review grid, its checkboxes and Save Validated Codes are offered
\* only when the stored batch is a non-empty list whose every element is a
\* mapping; when an element is not a mapping the error is shown instead and
\* no row can be validated or reach the recap.
C16_GridOnlyForRecords ==
  /\ (DOMAIN checkboxes # {} \/ recap.open)
       => /\ IsList(agent_response_data)
          /\ agent_response_data.items # <<>>
          /\ StoredAllMappings
          /\ DOMAIN checkboxes = 0..(Len(agent_response_data.items) - 1)
  /\ (IsList(agent_response_data) /\ ~StoredAllMappings)
       => /\ MSG_BAD_ROWS \in shown
          /\ DOMAIN checkboxes = {}
          /\ ~recap.open
          /\ \A i \in DOMAIN validation_states : ~validation_states[i]

\* the list [1] is stored: the error is shown and no checkbox is offered,
\* after a run that had offered the grid of an earlier batch
C16_Witness ==
  /\ pc = "idle"
  /\ IsList(agent_response_data)
  /\ ~StoredAllMappings
  /\ Truthy(replaced)
  /\ MSG_BAD_ROWS \in shown
  /\ DOMAIN checkboxes = {}

\* C17: the agent is called only when the user is logged in and the notes
\* are non-blank after stripping; when the user is logged out, or clicks
\* Analyze Notes with blank notes, no agent call is made and
\* agent_response_data keeps its previous value.
C17_CallOnlyLoggedInWithNotes ==
  /\ [](pc # "idle" => logged_in /\ ~IsBlank(doctor_notes))
  /\ [][(requests' # requests /\ requests' # NoRequests)
         => logged_in /\ ~IsBlank(doctor_notes)]_vars
  /\ [][~logged_in
         => UNCHANGED <<pc, agent_response_data, requests, answered>>]_vars
  /\ [][(IsBlank(doctor_notes) /\ logged_in' = logged_in)
         => UNCHANGED <<pc, agent_response_data, requests, answered>>]_vars
  /\ [][(MSG_NO_NOTES \in shown' /\ logged_in' = logged_in)
         => /\ IsBlank(doctor_notes)
            /\ UNCHANGED <<pc, agent, call, agent_response_data, requests,
                           answered>>]_vars

\* Analyze Notes was clicked with blank notes while a batch was stored: the
\* warning is shown and the batch is still there
C17_Witness ==
  /\ logged_in
  /\ doctor_notes # <<>>
  /\ IsBlank(doctor_notes)
  /\ MSG_NO_NOTES \in shown
  /\ Truthy(agent_response_data)
  /\ Outstanding = 0

\* C18: whenever json.loads of the span returned by
\* extract_json_from_string succeeds, the parsed value is a list or a
\* mapping: the unexpected-format outcome is reached for no response text.
C18_FormatBranchUnreachable ==
  CallEnded
    => /\ call.error # MSG_FORMAT
       /\ (call.loads_called /\ call.error # MSG_PARSE)
            => /\ IsList(call.data) \/ IsDict(call.data)
               /\ call.error = NO_MSG
               /\ IsList(call.result)

\* the answer was the JSON string "[1]", a scalar: its bracketed inside was
\* extracted and parsed into a list
C18_Witness ==
  /\ TextAnswered
  /\ agent.hasVal
  /\ agent.val = JStr(<<"[", "1", "]">>)
  /\ agent.text = agent.body
  /\ call.loads_called
  /\ call.data = JList(<<JInt(1)>>)

\* C19: in the sample script, when main leaves the conversation loop
\* (normally or through an exception in get_response), the thread the agent
\* used for the conversation is deleted before the client is closed, while
\* the agent itself is never deleted.
C19_ThreadDeletedBeforeClose ==
  /\ ~main.agent_deleted
  /\ main.client = "closed" => main.threads = {}

=============================================================================
